---------------------------- MODULE Spec2Model ----------------------------
(***************************************************************************)
(* Healthcare Management System (main.py): the in-memory tables, the       *)
(* session map and the HTTP handlers that read and write them.             *)
(*                                                                         *)
(* A Python dict that the code iterates (patients_db, doctors_db,          *)
(* medical_records_db, appointments_db) is a sequence of entries           *)
(* [k |-> key, v |-> value] in insertion order, with distinct keys.        *)
(* A dict that is only indexed (users_db, current_sessions) is a function. *)
(* Every handler is an `async def` without an await, so a call runs to     *)
(* completion on the event loop: one action per call.                      *)
(***************************************************************************)
EXTENDS Integers, Sequences, FiniteSets, TLC

VARIABLES
    users_db,            \* email -> user
    patients_db,         \* <<[k |-> id, v |-> patient]>>
    doctors_db,          \* <<[k |-> id, v |-> doctor]>>
    medical_records_db,  \* <<[k |-> id, v |-> record]>>
    appointments_db,     \* <<[k |-> id, v |-> appointment]>>
    current_sessions,    \* token -> user
    last                 \* the last call: [op, token, arg, status, body]

vars == <<users_db, patients_db, doctors_db, medical_records_db,
          appointments_db, current_sessions, last>>

tables == <<users_db, patients_db, doctors_db, medical_records_db,
            appointments_db>>

----------------------------------------------------------------------------
(* Bounds of the model *)

MaxSessions == 2

MaxAppointments == 1

MaxRecords == 2

----------------------------------------------------------------------------
(* Python dict operations on an insertion-ordered table *)

Range(s) == {s[i] : i \in 1..Len(s)}

Keys(tbl) == {tbl[i].k : i \in 1..Len(tbl)}

Values(tbl) == [i \in 1..Len(tbl) |-> tbl[i].v]

\* tbl[key], for a key of the table
Get(tbl, key) == tbl[CHOOSE i \in 1..Len(tbl) : tbl[i].k = key].v

\* tbl[key] = value: replaces in place when the key exists, appends otherwise
Put(tbl, key, value) ==
    IF key \in Keys(tbl)
    THEN [i \in 1..Len(tbl) |->
            IF tbl[i].k = key THEN [k |-> key, v |-> value] ELSE tbl[i]]
    ELSE Append(tbl, [k |-> key, v |-> value])

\* d[key] = value on a dict held as a function
PutFn(d, key, value) ==
    [x \in DOMAIN d \cup {key} |-> IF x = key THEN value ELSE d[x]]

\* the table built by `for row in rows: tbl[row["id"]] = row`
RECURSIVE Populate(_, _)
Populate(tbl, rows) ==
    IF rows = <<>> THEN tbl
    ELSE Populate(Put(tbl, Head(rows).id, Head(rows)), Tail(rows))

RECURSIVE PopulateByEmail(_, _)
PopulateByEmail(d, rows) ==
    IF rows = <<>> THEN d
    ELSE PopulateByEmail(PutFn(d, Head(rows).email, Head(rows)), Tail(rows))

----------------------------------------------------------------------------
(* initialize_data: the sample rows *)

doctors ==
    << [id |-> "doc1", name |-> "Dr. Rajesh Sharma",
        email |-> "rajesh.sharma@hospital.com", phone |-> "+91-9876543210",
        specialization |-> "Cardiology", qualification |-> "MD, DM Cardiology",
        experience_years |-> 15],
       [id |-> "doc2", name |-> "Dr. Priya Patel",
        email |-> "priya.patel@hospital.com", phone |-> "+91-9876543211",
        specialization |-> "Pediatrics", qualification |-> "MBBS, MD Pediatrics",
        experience_years |-> 10],
       [id |-> "doc3", name |-> "Dr. Amit Kumar",
        email |-> "amit.kumar@hospital.com", phone |-> "+91-9876543212",
        specialization |-> "Orthopedics", qualification |-> "MBBS, MS Orthopedics",
        experience_years |-> 12],
       [id |-> "doc4", name |-> "Dr. Sunita Rao",
        email |-> "sunita.rao@hospital.com", phone |-> "+91-9876543213",
        specialization |-> "Gynecology", qualification |-> "MBBS, MD Gynecology",
        experience_years |-> 8] >>

patients ==
    << [id |-> "pat1", name |-> "Arjun Mehta", email |-> "arjun.mehta@email.com",
        phone |-> "+91-9876543220", date_of_birth |-> "1990-05-15",
        address |-> "Mumbai, Maharashtra", blood_group |-> "A+",
        emergency_contact |-> "+91-9876543221"],
       [id |-> "pat2", name |-> "Kavya Singh", email |-> "kavya.singh@email.com",
        phone |-> "+91-9876543222", date_of_birth |-> "1985-08-22",
        address |-> "Delhi, India", blood_group |-> "O+",
        emergency_contact |-> "+91-9876543223"] >>

sample_users ==
    << [id |-> "doc1", email |-> "rajesh.sharma@hospital.com", password |-> "doc123",
        name |-> "Dr. Rajesh Sharma", user_type |-> "doctor"],
       [id |-> "doc2", email |-> "priya.patel@hospital.com", password |-> "doc123",
        name |-> "Dr. Priya Patel", user_type |-> "doctor"],
       [id |-> "doc3", email |-> "amit.kumar@hospital.com", password |-> "doc123",
        name |-> "Dr. Amit Kumar", user_type |-> "doctor"],
       [id |-> "doc4", email |-> "sunita.rao@hospital.com", password |-> "doc123",
        name |-> "Dr. Sunita Rao", user_type |-> "doctor"],
       [id |-> "pat1", email |-> "arjun.mehta@email.com", password |-> "pat123",
        name |-> "Arjun Mehta", user_type |-> "patient"],
       [id |-> "pat2", email |-> "kavya.singh@email.com", password |-> "pat123",
        name |-> "Kavya Singh", user_type |-> "patient"] >>

medical_records ==
    << [id |-> "rec1", patient_id |-> "pat1", doctor_id |-> "doc1",
        visit_date |-> "2024-01-15", diagnosis |-> "Hypertension",
        treatment |-> "Lifestyle changes and medication",
        prescription |-> "Amlodipine 5mg once daily",
        notes |-> "Patient advised to reduce salt intake and exercise regularly"],
       [id |-> "rec2", patient_id |-> "pat1", doctor_id |-> "doc3",
        visit_date |-> "2024-02-20", diagnosis |-> "Lower back pain",
        treatment |-> "Physiotherapy and pain management",
        prescription |-> "Ibuprofen 400mg twice daily",
        notes |-> "Recommended ergonomic workplace setup"],
       [id |-> "rec3", patient_id |-> "pat2", doctor_id |-> "doc2",
        visit_date |-> "2024-01-10", diagnosis |-> "Routine checkup",
        treatment |-> "No treatment required",
        prescription |-> "Multivitamin supplements",
        notes |-> "Patient in good health, continue regular checkups"] >>

appointments ==
    << [id |-> "app1", patient_id |-> "pat1", doctor_id |-> "doc1",
        appointment_date |-> "2024-08-25", appointment_time |-> "10:00",
        status |-> "scheduled", reason |-> "Follow-up for hypertension"],
       [id |-> "app2", patient_id |-> "pat2", doctor_id |-> "doc2",
        appointment_date |-> "2024-08-26", appointment_time |-> "14:00",
        status |-> "scheduled", reason |-> "Annual health checkup"] >>

EmptyDict == [x \in {} |-> x]

NoCall == [op |-> "startup", token |-> "", arg |-> "", status |-> 0, body |-> ""]

initialize_data ==
    /\ users_db = PopulateByEmail(EmptyDict, sample_users)
    /\ doctors_db = Populate(<<>>, doctors)
    /\ patients_db = Populate(<<>>, patients)
    /\ medical_records_db = Populate(<<>>, medical_records)
    /\ appointments_db = Populate(<<>>, appointments)

Init ==
    /\ initialize_data
    /\ current_sessions = EmptyDict
    /\ last = NoCall

----------------------------------------------------------------------------
(* Library calls *)

\* str(uuid.uuid4()), drawn to key a dict whose keys are `used`: a string
\* that is none of them (nothing is ever deleted from either dict, so `used`
\* holds every string drawn for it so far)
UuidStr == <<"uuid-1", "uuid-2", "uuid-3", "uuid-4", "uuid-5", "uuid-6">>

uuid4(used) ==
    UuidStr[CHOOSE i \in 1..Len(UuidStr) :
                /\ UuidStr[i] \notin used
                /\ \A j \in 1..(i - 1) : UuidStr[j] \in used]

\* f"pat{n}"
PatStr == <<"pat1", "pat2", "pat3", "pat4", "pat5", "pat6", "pat7", "pat8">>

fmt_pat(n) == IF n = 0 THEN "pat0" ELSE PatStr[n]

\* raise HTTPException(status_code, detail)
HTTPException(status_code, detail) ==
    [status |-> status_code, body |-> [detail |-> detail]]

\* a handler's return value
Ok(body) == [status |-> 200, body |-> body]

----------------------------------------------------------------------------
(* Authentication helper *)

get_current_user(token) ==
    IF token \notin DOMAIN current_sessions
    THEN HTTPException(401, "Invalid token")
    ELSE Ok(current_sessions[token])

----------------------------------------------------------------------------
(* POST /signup *)

\* faulty variant: signup without the check for a registered email
signup_dup_unchecked(signup_data) ==
    LET patient_id == fmt_pat(Len(patients_db) + 1)
        new_user == [id |-> patient_id, email |-> signup_data.email,
                     password |-> signup_data.password,
                     name |-> signup_data.name, user_type |-> "patient"]
        new_patient == [id |-> patient_id, name |-> signup_data.name,
                        email |-> signup_data.email, phone |-> signup_data.phone,
                        date_of_birth |-> signup_data.date_of_birth,
                        address |-> signup_data.address,
                        blood_group |-> signup_data.blood_group,
                        emergency_contact |-> signup_data.emergency_contact]
    IN  [status |-> 200,
         body |-> [message |-> "Account created successfully",
                   patient_id |-> patient_id],
         users |-> PutFn(users_db, signup_data.email, new_user),
         patients |-> Put(patients_db, patient_id, new_patient)]

\* faulty variant: signup numbering the patient len(patients_db)
signup_id_from_count(signup_data) ==
    IF signup_data.email \in DOMAIN users_db
    THEN [status |-> 400, body |-> [detail |-> "Email already registered"],
          users |-> users_db, patients |-> patients_db]
    ELSE
    LET patient_id == fmt_pat(Len(patients_db))
        new_user == [id |-> patient_id, email |-> signup_data.email,
                     password |-> signup_data.password,
                     name |-> signup_data.name, user_type |-> "patient"]
        new_patient == [id |-> patient_id, name |-> signup_data.name,
                        email |-> signup_data.email, phone |-> signup_data.phone,
                        date_of_birth |-> signup_data.date_of_birth,
                        address |-> signup_data.address,
                        blood_group |-> signup_data.blood_group,
                        emergency_contact |-> signup_data.emergency_contact]
    IN  [status |-> 200,
         body |-> [message |-> "Account created successfully",
                   patient_id |-> patient_id],
         users |-> PutFn(users_db, signup_data.email, new_user),
         patients |-> Put(patients_db, patient_id, new_patient)]

signup(signup_data) ==
    IF signup_data.email \in DOMAIN users_db
    THEN [status |-> 400, body |-> [detail |-> "Email already registered"],
          users |-> users_db, patients |-> patients_db]
    ELSE
    LET patient_id == fmt_pat(Len(patients_db) + 1)
        new_user == [id |-> patient_id, email |-> signup_data.email,
                     password |-> signup_data.password,
                     name |-> signup_data.name, user_type |-> "patient"]
        new_patient == [id |-> patient_id, name |-> signup_data.name,
                        email |-> signup_data.email, phone |-> signup_data.phone,
                        date_of_birth |-> signup_data.date_of_birth,
                        address |-> signup_data.address,
                        blood_group |-> signup_data.blood_group,
                        emergency_contact |-> signup_data.emergency_contact]
    IN  [status |-> 200,
         body |-> [message |-> "Account created successfully",
                   patient_id |-> patient_id],
         users |-> PutFn(users_db, signup_data.email, new_user),
         patients |-> Put(patients_db, patient_id, new_patient)]

----------------------------------------------------------------------------
(* POST /login *)

\* faulty variant: login that does not compare the password
login_password_unchecked(login_data) ==
    IF login_data.email \notin DOMAIN users_db
    THEN [status |-> 401, body |-> [detail |-> "Invalid credentials"],
          sessions |-> current_sessions]
    ELSE
    LET user == users_db[login_data.email]
        token == uuid4(DOMAIN current_sessions)
    IN  [status |-> 200,
         body |-> [token |-> token,
                   user |-> [id |-> user.id, name |-> user.name,
                             email |-> user.email, user_type |-> user.user_type]],
         sessions |-> PutFn(current_sessions, token, user)]

login(login_data) ==
    IF \/ login_data.email \notin DOMAIN users_db
       \/ users_db[login_data.email].password # login_data.password
    THEN [status |-> 401, body |-> [detail |-> "Invalid credentials"],
          sessions |-> current_sessions]
    ELSE
    LET user == users_db[login_data.email]
        token == uuid4(DOMAIN current_sessions)
    IN  [status |-> 200,
         body |-> [token |-> token,
                   user |-> [id |-> user.id, name |-> user.name,
                             email |-> user.email, user_type |-> user.user_type]],
         sessions |-> PutFn(current_sessions, token, user)]

----------------------------------------------------------------------------
(* POST /logout *)

\* variant: logout that deletes the caller's token from current_sessions
logout_revoking(token, current_user) ==
    [status |-> 200, body |-> [message |-> "Logged out successfully"],
     sessions |-> [t \in DOMAIN current_sessions \ {token} |-> current_sessions[t]]]

\* the handler receives the resolved user (the token is not passed on to it)
\* and removes nothing
logout(token, current_user) ==
    [status |-> 200, body |-> [message |-> "Logged out successfully"],
     sessions |-> current_sessions]

----------------------------------------------------------------------------
(* GET /doctors, GET /patients, GET /patient/{patient_id} *)

get_doctors == Ok(Values(doctors_db))

\* faulty variant: get_patients without the role check
get_patients_any_role(current_user) == Ok(Values(patients_db))

get_patients(current_user) ==
    IF current_user.user_type # "doctor"
    THEN HTTPException(403, "Access denied")
    ELSE Ok(Values(patients_db))

\* faulty variant: get_patient without the ownership check
get_patient_unguarded(patient_id, current_user) ==
    IF patient_id \notin Keys(patients_db)
    THEN HTTPException(404, "Patient not found")
    ELSE Ok(Get(patients_db, patient_id))

get_patient(patient_id, current_user) ==
    IF current_user.user_type = "patient" /\ current_user.id # patient_id
    THEN HTTPException(403, "Access denied")
    ELSE IF patient_id \notin Keys(patients_db)
    THEN HTTPException(404, "Patient not found")
    ELSE Ok(Get(patients_db, patient_id))

----------------------------------------------------------------------------
(* GET /medical-records/{patient_id} *)

\* d.copy() followed by d[key] = value
Set(d, key, value) == PutFn(d, key, value)

\* doctor = doctors_db.get(doctor_id); doctor[field] if doctor else "Unknown"
doctor_field(doctor_id, field) ==
    IF doctor_id \in Keys(doctors_db)
    THEN Get(doctors_db, doctor_id)[field]
    ELSE "Unknown"

record_with_doctor(record) ==
    Set(Set(record, "doctor_name", doctor_field(record.doctor_id, "name")),
        "doctor_specialization",
        doctor_field(record.doctor_id, "specialization"))

\* faulty variant: get_medical_records without the ownership check
get_medical_records_any_patient(patient_id, current_user) ==
    LET keep(record) == record.patient_id = patient_id
        kept == SelectSeq(Values(medical_records_db), keep)
    IN  Ok([i \in 1..Len(kept) |-> record_with_doctor(kept[i])])

get_medical_records(patient_id, current_user) ==
    IF current_user.user_type = "patient" /\ current_user.id # patient_id
    THEN HTTPException(403, "Access denied")
    ELSE LET keep(record) == record.patient_id = patient_id
             kept == SelectSeq(Values(medical_records_db), keep)
         IN  Ok([i \in 1..Len(kept) |-> record_with_doctor(kept[i])])

----------------------------------------------------------------------------
(* GET /doctor-patients/{doctor_id} *)

\* the orders in which `for x in a_set` can visit the set
Orders(S) ==
    {s \in [1..Cardinality(S) -> S] : \A i, j \in 1..Cardinality(S) :
                                          i # j => s[i] # s[j]}

\* the set the first loop builds
doctor_patient_ids(doctor_id) ==
    {medical_records_db[i].v.patient_id :
        i \in {j \in 1..Len(medical_records_db) :
                  medical_records_db[j].v.doctor_id = doctor_id}}

\* faulty variant: get_doctor_patients open to every doctor
get_doctor_patients_any_doctor(doctor_id, current_user, order) ==
    IF current_user.user_type # "doctor"
    THEN HTTPException(403, "Access denied")
    ELSE LET keep(patient_id) == patient_id \in Keys(patients_db)
             kept == SelectSeq(order, keep)
         IN  Ok([i \in 1..Len(kept) |-> Get(patients_db, kept[i])])

\* order: the order in which the second loop visits patient_ids
get_doctor_patients(doctor_id, current_user, order) ==
    IF current_user.user_type # "doctor" \/ current_user.id # doctor_id
    THEN HTTPException(403, "Access denied")
    ELSE LET keep(patient_id) == patient_id \in Keys(patients_db)
             kept == SelectSeq(order, keep)
         IN  Ok([i \in 1..Len(kept) |-> Get(patients_db, kept[i])])

----------------------------------------------------------------------------
(* GET /appointments *)

patient_name(patient_id) ==
    IF patient_id \in Keys(patients_db)
    THEN Get(patients_db, patient_id).name
    ELSE "Unknown"

appointment_with_names(appointment) ==
    Set(Set(Set(appointment,
                "patient_name", patient_name(appointment.patient_id)),
            "doctor_name", doctor_field(appointment.doctor_id, "name")),
        "doctor_specialization",
        doctor_field(appointment.doctor_id, "specialization"))

\* faulty variant: get_appointments matching patient_id for every role
get_appointments_by_patient_only(current_user) ==
    LET keep(appointment) == appointment.patient_id = current_user.id
        kept == SelectSeq(Values(appointments_db), keep)
    IN  Ok([i \in 1..Len(kept) |-> appointment_with_names(kept[i])])

get_appointments(current_user) ==
    LET keep(appointment) ==
            \/ /\ current_user.user_type = "patient"
               /\ appointment.patient_id = current_user.id
            \/ /\ current_user.user_type = "doctor"
               /\ appointment.doctor_id = current_user.id
        kept == SelectSeq(Values(appointments_db), keep)
    IN  Ok([i \in 1..Len(kept) |-> appointment_with_names(kept[i])])

----------------------------------------------------------------------------
(* POST /appointments *)

\* variant: create_appointment that books for the caller, whatever
\* patient_id the body names
create_appointment_for_caller(appointment_data, current_user) ==
    IF current_user.user_type # "patient"
    THEN [status |-> 403,
          body |-> [detail |-> "Only patients can book appointments"],
          appointments |-> appointments_db]
    ELSE
    LET appointment_id == uuid4(Keys(appointments_db))
        new_appointment ==
            [id |-> appointment_id,
             patient_id |-> current_user.id,
             doctor_id |-> appointment_data.doctor_id,
             appointment_date |-> appointment_data.appointment_date,
             appointment_time |-> appointment_data.appointment_time,
             status |-> "scheduled",
             reason |-> appointment_data.reason]
    IN  [status |-> 200,
         body |-> [message |-> "Appointment created successfully",
                   appointment_id |-> appointment_id],
         appointments |-> Put(appointments_db, appointment_id, new_appointment)]

\* faulty variant: create_appointment without the role check
create_appointment_any_role(appointment_data, current_user) ==
    LET appointment_id == uuid4(Keys(appointments_db))
        new_appointment ==
            [id |-> appointment_id,
             patient_id |-> appointment_data.patient_id,
             doctor_id |-> appointment_data.doctor_id,
             appointment_date |-> appointment_data.appointment_date,
             appointment_time |-> appointment_data.appointment_time,
             status |-> "scheduled",
             reason |-> appointment_data.reason]
    IN  [status |-> 200,
         body |-> [message |-> "Appointment created successfully",
                   appointment_id |-> appointment_id],
         appointments |-> Put(appointments_db, appointment_id, new_appointment)]

create_appointment(appointment_data, current_user) ==
    IF current_user.user_type # "patient"
    THEN [status |-> 403,
          body |-> [detail |-> "Only patients can book appointments"],
          appointments |-> appointments_db]
    ELSE
    LET appointment_id == uuid4(Keys(appointments_db))
        new_appointment ==
            [id |-> appointment_id,
             patient_id |-> appointment_data.patient_id,
             doctor_id |-> appointment_data.doctor_id,
             appointment_date |-> appointment_data.appointment_date,
             appointment_time |-> appointment_data.appointment_time,
             status |-> "scheduled",
             reason |-> appointment_data.reason]
    IN  [status |-> 200,
         body |-> [message |-> "Appointment created successfully",
                   appointment_id |-> appointment_id],
         appointments |-> Put(appointments_db, appointment_id, new_appointment)]

----------------------------------------------------------------------------
(* Requests the clients send *)

SignupData(name, email, password) ==
    [name |-> name, email |-> email, password |-> password,
     phone |-> "+91-9876543230", date_of_birth |-> "1995-03-10",
     address |-> "Pune, Maharashtra", blood_group |-> "B+",
     emergency_contact |-> "+91-9876543231"]

SignupInputs ==
    { SignupData("Ravi Nair", "ravi.nair@email.com", "pw1"),
      SignupData("Meera Das", "meera.das@email.com", "pw1"),
      SignupData("Arjun Mehta", "arjun.mehta@email.com", "pw1") }

LoginData(email, password) == [email |-> email, password |-> password]

LoginInputs ==
    { LoginData("rajesh.sharma@hospital.com", "doc123"),
      LoginData("arjun.mehta@email.com", "pat123"),
      LoginData("ravi.nair@email.com", "pw1"),
      LoginData("ravi.nair@email.com", "pw2"),
      LoginData("nobody@email.com", "pw1") }

AppointmentData(patient_id, doctor_id) ==
    [patient_id |-> patient_id, doctor_id |-> doctor_id,
     appointment_date |-> "2024-09-01", appointment_time |-> "09:30",
     reason |-> "Consultation"]

AppointmentInputs ==
    { AppointmentData("pat1", "doc1"), AppointmentData("pat3", "doc9") }

PatientIdInputs == {"pat1", "pat3"}

DoctorIdInputs == {"doc1", "doc2"}

\* the bearer tokens a client may send: every live one and one that is not
TokenInputs == DOMAIN current_sessions \cup {"bad-token"}

----------------------------------------------------------------------------
(* One action per call *)

Respond(op, token, arg, r) ==
    last' = [op |-> op, token |-> token, arg |-> arg,
             status |-> r.status, body |-> r.body]

Signup ==
    \E signup_data \in SignupInputs :
        LET r == signup(signup_data)
        IN  /\ users_db' = r.users
            /\ patients_db' = r.patients
            /\ Respond("signup", "", signup_data, r)
            /\ UNCHANGED <<doctors_db, medical_records_db, appointments_db,
                           current_sessions>>

Login ==
    \E login_data \in LoginInputs :
        LET r == login(login_data)
        IN  /\ r.status = 200 =>
                   Cardinality(DOMAIN current_sessions) < MaxSessions
            /\ current_sessions' = r.sessions
            /\ Respond("login", "", login_data, r)
            /\ UNCHANGED tables

Logout ==
    \E token \in TokenInputs :
        LET auth == get_current_user(token)
        IN  IF auth.status # 200
            THEN /\ Respond("logout", token, "", auth)
                 /\ UNCHANGED <<tables, current_sessions>>
            ELSE LET r == logout(token, auth.body)
                 IN  /\ current_sessions' = r.sessions
                     /\ Respond("logout", token, "", r)
                     /\ UNCHANGED tables

GetDoctors ==
    /\ Respond("get_doctors", "", "", get_doctors)
    /\ UNCHANGED <<tables, current_sessions>>

GetPatients ==
    \E token \in TokenInputs :
        LET auth == get_current_user(token)
        IN  /\ Respond("get_patients", token, "",
                       IF auth.status # 200 THEN auth
                       ELSE get_patients(auth.body))
            /\ UNCHANGED <<tables, current_sessions>>

GetPatient ==
    \E token \in TokenInputs, patient_id \in PatientIdInputs :
        LET auth == get_current_user(token)
        IN  /\ Respond("get_patient", token, patient_id,
                       IF auth.status # 200 THEN auth
                       ELSE get_patient(patient_id, auth.body))
            /\ UNCHANGED <<tables, current_sessions>>

GetMedicalRecords ==
    \E token \in TokenInputs, patient_id \in PatientIdInputs :
        LET auth == get_current_user(token)
        IN  /\ Respond("get_medical_records", token, patient_id,
                       IF auth.status # 200 THEN auth
                       ELSE get_medical_records(patient_id, auth.body))
            /\ UNCHANGED <<tables, current_sessions>>

GetDoctorPatients ==
    \E token \in TokenInputs, doctor_id \in DoctorIdInputs :
        \E order \in Orders(doctor_patient_ids(doctor_id)) :
            LET auth == get_current_user(token)
            IN  /\ Respond("get_doctor_patients", token, doctor_id,
                           IF auth.status # 200 THEN auth
                           ELSE get_doctor_patients(doctor_id, auth.body, order))
                /\ UNCHANGED <<tables, current_sessions>>

GetAppointments ==
    \E token \in TokenInputs :
        LET auth == get_current_user(token)
        IN  /\ Respond("get_appointments", token, "",
                       IF auth.status # 200 THEN auth
                       ELSE get_appointments(auth.body))
            /\ UNCHANGED <<tables, current_sessions>>

CreateAppointment ==
    \E token \in TokenInputs, appointment_data \in AppointmentInputs :
        LET auth == get_current_user(token)
        IN  IF auth.status # 200
            THEN /\ Respond("create_appointment", token, appointment_data, auth)
                 /\ UNCHANGED <<tables, current_sessions>>
            ELSE LET r == create_appointment(appointment_data, auth.body)
                 IN  /\ r.status = 200 =>
                            Len(appointments_db) <
                                Len(appointments) + MaxAppointments
                     /\ appointments_db' = r.appointments
                     /\ Respond("create_appointment", token, appointment_data, r)
                     /\ UNCHANGED <<users_db, patients_db, doctors_db,
                                    medical_records_db, current_sessions>>

Next ==
    \/ Signup
    \/ Login
    \/ Logout
    \/ GetDoctors
    \/ GetPatients
    \/ GetPatient
    \/ GetMedicalRecords
    \/ GetDoctorPatients
    \/ GetAppointments
    \/ CreateAppointment

Spec == Init /\ [][Next]_vars

----------------------------------------------------------------------------
(* The read handlers over any medical-records table.  initialize_data is   *)
(* the only writer of medical_records_db, and the handlers that join it    *)
(* with doctors_db and patients_db take it as they find it: SpecRecords    *)
(* starts them on every table of at most MaxRecords rows, rows whose       *)
(* patient_id or doctor_id has no Patient or Doctor row included.          *)

RecordIdStr == <<"rec1", "rec2", "rec3", "rec4">>

RecordRow(i, patient_id, doctor_id) ==
    [id |-> RecordIdStr[i], patient_id |-> patient_id, doctor_id |-> doctor_id,
     visit_date |-> "2024-03-05", diagnosis |-> "Seasonal flu",
     treatment |-> "Rest and fluids", prescription |-> "Paracetamol 500mg",
     notes |-> "Review after one week"]

RecordLinks == [patient_id : {"pat1", "pat2", "pat3"}, doctor_id : {"doc1", "doc9"}]

RecordTables ==
    { Populate(<<>>, [i \in DOMAIN links |->
                        RecordRow(i, links[i].patient_id, links[i].doctor_id)]) :
        links \in UNION {[1..n -> RecordLinks] : n \in 0..MaxRecords} }

InitRecords ==
    /\ users_db = PopulateByEmail(EmptyDict, sample_users)
    /\ doctors_db = Populate(<<>>, doctors)
    /\ patients_db = Populate(<<>>, patients)
    /\ medical_records_db \in RecordTables \cup {Populate(<<>>, medical_records)}
    /\ appointments_db = Populate(<<>>, appointments)
    /\ current_sessions = EmptyDict
    /\ last = NoCall

NextRecords ==
    \/ Login
    \/ GetMedicalRecords
    \/ GetDoctorPatients

SpecRecords == InitRecords /\ [][NextRecords]_vars

----------------------------------------------------------------------------
(* Properties.  `last` holds the last call with its response; a read       *)
(* handler leaves every table as it found it, so in a state whose last     *)
(* call is a read the tables are the ones the call saw.                    *)

\* the call in `last` carried a live token
Authenticated == last.token \in DOMAIN current_sessions

Caller == current_sessions[last.token]

Restrict(d, keys) == [key \in keys |-> d[key]]

NoRepeats(s) == \A i, j \in 1..Len(s) : i # j => s[i] # s[j]

\* the stored medical records of patient X
RecordsOf(X) ==
    {medical_records_db[i].v : i \in {j \in 1..Len(medical_records_db) :
                                         medical_records_db[j].v.patient_id = X}}

DoctorRows(doctor_id) ==
    {doctors_db[i].v : i \in {j \in 1..Len(doctors_db) : doctors_db[j].k = doctor_id}}

RecordFields ==
    {"id", "patient_id", "doctor_id", "visit_date", "diagnosis", "treatment",
     "prescription", "notes"}

EnrichedRecordOk(e) ==
    /\ DOMAIN e = RecordFields \cup {"doctor_name", "doctor_specialization"}
    /\ IF DoctorRows(e.doctor_id) = {}
       THEN e.doctor_name = "Unknown" /\ e.doctor_specialization = "Unknown"
       ELSE \E d \in DoctorRows(e.doctor_id) :
                /\ e.doctor_name = d.name
                /\ e.doctor_specialization = d.specialization

MedicalRecordsResponseOk ==
    last.op = "get_medical_records" /\ Authenticated =>
        /\ last.status \in {200, 403}
        /\ last.status = 403 <=>
               (Caller.user_type = "patient" /\ Caller.id # last.arg)
        /\ last.status = 200 =>
               /\ NoRepeats(last.body)
               /\ {Restrict(e, RecordFields) : e \in Range(last.body)}
                      = RecordsOf(last.arg)
               /\ Len(last.body) = Cardinality(RecordsOf(last.arg))
               /\ \A e \in Range(last.body) : EnrichedRecordOk(e)

\* C1: get_medical_records for patient X is Forbidden exactly when the caller
\* is a patient other than X; otherwise it returns exactly the stored records
\* of X, each a copy with doctor_name and doctor_specialization of the
\* record's Doctor row, or "Unknown" for both when there is no such row; the
\* call leaves the medical records table unchanged.
C1_MedicalRecords ==
    /\ []MedicalRecordsResponseOk
    /\ [][last'.op = "get_medical_records" =>
             medical_records_db' = medical_records_db]_vars

\* a doctor reads a patient's records, one of them naming a doctor without a
\* Doctor row, while the table also holds another patient's record
C1_Witness ==
    /\ last.op = "get_medical_records"
    /\ last.status = 200
    /\ Authenticated
    /\ Caller.user_type = "doctor"
    /\ \E e \in Range(last.body) : e.doctor_name = "Unknown"
    /\ RecordsOf(last.arg) # Range(Values(medical_records_db))

----------------------------------------------------------------------------

\* the Patient rows linked to doctor Y by at least one medical record
PatientsOfDoctor(Y) ==
    {patients_db[i].v :
        i \in {j \in 1..Len(patients_db) :
                  \E r \in Range(Values(medical_records_db)) :
                      r.doctor_id = Y /\ r.patient_id = patients_db[j].k}}

\* C8: get_doctor_patients for doctor Y is Forbidden unless the caller is the
\* doctor with id Y; when allowed it returns exactly the Patient rows whose id
\* is the patient_id of some medical record of doctor Y, each once, and
\* nothing for a patient_id without a Patient row.
C8_DoctorPatients ==
    last.op = "get_doctor_patients" /\ Authenticated =>
        /\ last.status \in {200, 403}
        /\ last.status = 403 <=>
               ~(Caller.user_type = "doctor" /\ Caller.id = last.arg)
        /\ last.status = 200 =>
               /\ NoRepeats(last.body)
               /\ Range(last.body) = PatientsOfDoctor(last.arg)

\* the doctor's two records link the same patient, who is listed once
C8_Witness ==
    /\ last.op = "get_doctor_patients"
    /\ last.status = 200
    /\ Len(last.body) = 1
    /\ Cardinality({i \in 1..Len(medical_records_db) :
                       /\ medical_records_db[i].v.doctor_id = last.arg
                       /\ medical_records_db[i].v.patient_id = last.body[1].id}) = 2

----------------------------------------------------------------------------

PatientRows(patient_id) ==
    {patients_db[i].v : i \in {j \in 1..Len(patients_db) :
                                  patients_db[j].k = patient_id}}

\* C2: get_patient for id P is Forbidden whenever the caller is a patient
\* other than P, whether or not P exists; for a doctor or for patient P it
\* returns the stored Patient row of P, or NotFound when there is none.
C2_GetPatient ==
    last.op = "get_patient" /\ Authenticated =>
        IF Caller.user_type = "patient" /\ Caller.id # last.arg
        THEN last.status = 403
        ELSE IF PatientRows(last.arg) = {}
        THEN last.status = 404
        ELSE last.status = 200 /\ PatientRows(last.arg) = {last.body}

\* a patient created by signup is refused the row of an existing patient
C2_Witness ==
    /\ last.op = "get_patient"
    /\ last.status = 403
    /\ Authenticated
    /\ Caller.id = "pat3"
    /\ PatientRows(last.arg) # {}

----------------------------------------------------------------------------

AppointmentFields ==
    {"id", "patient_id", "doctor_id", "appointment_date", "appointment_time",
     "status", "reason"}

\* the stored appointments the caller is party to
AppointmentsOf(user) ==
    {appointments_db[i].v :
        i \in {j \in 1..Len(appointments_db) :
                  IF user.user_type = "patient"
                  THEN appointments_db[j].v.patient_id = user.id
                  ELSE appointments_db[j].v.doctor_id = user.id}}

\* C3: get_appointments as patient P returns exactly the stored appointments
\* with patient_id = P, and as doctor D exactly those with doctor_id = D:
\* none of another party, none missing.
C3_GetAppointments ==
    last.op = "get_appointments" /\ Authenticated =>
        /\ last.status = 200
        /\ NoRepeats(last.body)
        /\ {Restrict(e, AppointmentFields) : e \in Range(last.body)}
               = AppointmentsOf(Caller)
        /\ Len(last.body) = Cardinality(AppointmentsOf(Caller))

\* a patient lists appointments after a booking: the result holds the
\* patient's own, the booked one among them, and leaves out the other's
C3_Witness ==
    /\ last.op = "get_appointments"
    /\ Authenticated
    /\ Caller.user_type = "patient"
    /\ Len(appointments_db) > Len(appointments)
    /\ \E e \in Range(last.body) : e.id \notin {"app1", "app2"}
    /\ Len(last.body) < Len(appointments_db)

----------------------------------------------------------------------------

LoginMatches(login_data) ==
    /\ login_data.email \in DOMAIN users_db
    /\ users_db[login_data.email].password = login_data.password

\* C4: the (email, password) a successful signup stores stays stored, and a
\* login with exactly a stored pair succeeds with a token that
\* get_current_user resolves to that user (for a signup: the id it returned,
\* the email, role patient); a login with an unknown email or another
\* password fails with 401 and adds no session.
C4_SignupThenLogin ==
    [][ /\ last'.op = "signup" /\ last'.status = 200 =>
               /\ last'.arg.email \in DOMAIN users_db'
               /\ users_db'[last'.arg.email] =
                      [id |-> last'.body.patient_id,
                       email |-> last'.arg.email,
                       password |-> last'.arg.password,
                       name |-> last'.arg.name,
                       user_type |-> "patient"]
        /\ \A email \in DOMAIN users_db :
               email \in DOMAIN users_db' /\ users_db'[email] = users_db[email]
        /\ last'.op = "login" =>
               IF LoginMatches(last'.arg)
               THEN /\ last'.status = 200
                    /\ last'.body.token \in DOMAIN current_sessions'
                    /\ current_sessions'[last'.body.token]
                           = users_db[last'.arg.email]
                    /\ last'.body.user.id = users_db[last'.arg.email].id
                    /\ last'.body.user.email = last'.arg.email
               ELSE /\ last'.status = 401
                    /\ current_sessions' = current_sessions
      ]_vars

\* the patient a signup created has logged in with the signup's password
C4_Witness ==
    /\ last.op = "login"
    /\ last.status = 200
    /\ last.arg = LoginData("ravi.nair@email.com", "pw1")
    /\ current_sessions[last.body.token].id \in {"pat3", "pat4"}
    /\ current_sessions[last.body.token].user_type = "patient"

----------------------------------------------------------------------------

\* C5: signup with an email that is a key of users_db fails with 400 and
\* leaves users, patients, doctors, medical records, appointments and
\* sessions unchanged.
C5_SignupConflict ==
    [][ last'.op = "signup" /\ last'.arg.email \in DOMAIN users_db =>
            /\ last'.status = 400
            /\ UNCHANGED <<tables, current_sessions>> ]_vars

\* a second signup with the email of an earlier signup
C5_Witness ==
    /\ last.op = "signup"
    /\ last.status = 400
    /\ last.arg.email = "ravi.nair@email.com"

----------------------------------------------------------------------------

\* C6: create_appointment by a patient appends exactly one appointment, under
\* an id that was no key of the table, with status "scheduled", and returns
\* that id, leaving every stored appointment as it was; by a doctor it fails
\* with 403 and leaves the table unchanged.
C6_CreateAppointment ==
    [][ last'.op = "create_appointment"
            /\ last'.token \in DOMAIN current_sessions =>
            IF current_sessions[last'.token].user_type = "patient"
            THEN /\ last'.status = 200
                 /\ last'.body.appointment_id \notin Keys(appointments_db)
                 /\ Len(appointments_db') = Len(appointments_db) + 1
                 /\ SubSeq(appointments_db', 1, Len(appointments_db))
                        = appointments_db
                 /\ LET new == appointments_db'[Len(appointments_db')]
                    IN  /\ new.k = last'.body.appointment_id
                        /\ new.v.id = last'.body.appointment_id
                        /\ new.v.status = "scheduled"
                        /\ new.v.patient_id = last'.arg.patient_id
                        /\ new.v.doctor_id = last'.arg.doctor_id
            ELSE /\ last'.status = 403
                 /\ appointments_db' = appointments_db ]_vars

\* a patient has booked
C6_Witness ==
    /\ last.op = "create_appointment"
    /\ last.status = 200
    /\ Len(appointments_db) = Len(appointments) + 1
    /\ appointments_db[Len(appointments_db)].v.status = "scheduled"

----------------------------------------------------------------------------

PatientUserEmails ==
    {email \in DOMAIN users_db : users_db[email].user_type = "patient"}

\* C7: the users of role patient and the Patient rows correspond one to one
\* by id, and no two users share an id; a successful signup assigns an id
\* that keys no Patient row and overwrites none.
C7_PatientUserBijection ==
    /\ [] /\ \A email \in PatientUserEmails :
                 Cardinality({i \in 1..Len(patients_db) :
                                 /\ patients_db[i].k = users_db[email].id
                                 /\ patients_db[i].v.id = users_db[email].id}) = 1
          /\ \A i \in 1..Len(patients_db) :
                 Cardinality({email \in PatientUserEmails :
                                 users_db[email].id = patients_db[i].k}) = 1
          /\ \A e1, e2 \in DOMAIN users_db :
                 e1 # e2 => users_db[e1].id # users_db[e2].id
    /\ [][ last'.op = "signup" /\ last'.status = 200 =>
               /\ last'.body.patient_id \notin Keys(patients_db)
               /\ SubSeq(patients_db', 1, Len(patients_db)) = patients_db ]_vars

\* two signups have succeeded
C7_Witness ==
    /\ Len(patients_db) = Len(patients) + 2
    /\ Cardinality(PatientUserEmails) = Len(patients) + 2

----------------------------------------------------------------------------

----------------------------------------------------------------------------

\* C10: get_patients returns the whole Patient table to a doctor and is
\* Forbidden for every patient, patients created by signup included.
C10_GetPatients ==
    last.op = "get_patients" /\ Authenticated =>
        IF Caller.user_type = "doctor"
        THEN /\ last.status = 200
             /\ Len(last.body) = Len(patients_db)
             /\ \A i \in 1..Len(patients_db) : last.body[i] = patients_db[i].v
        ELSE Caller.user_type = "patient" /\ last.status = 403

\* a patient created by signup is refused
C10_Witness ==
    /\ last.op = "get_patients"
    /\ last.status = 403
    /\ Authenticated
    /\ Caller.id = "pat3"

----------------------------------------------------------------------------

\* the ids of the appointments get_appointments returns to `user`
ListedIds(user) ==
    {get_appointments(user).body[i].id :
        i \in 1..Len(get_appointments(user).body)}

PatientSessions ==
    {current_sessions[token] :
        token \in {t \in DOMAIN current_sessions :
                      current_sessions[t].user_type = "patient"}}

\* C11: create_appointment stores the patient_id of the request body without
\* comparing it to the caller's id: patient P's call naming another id Q
\* succeeds and stores patient_id = Q; from then on the stored appointment
\* stays as it is, and get_appointments returns it to patient Q and not to P
\* (to a patient caller: exactly when its patient_id is the caller's id).
C11_BookForAnother ==
    /\ [][ /\ last'.op = "create_appointment"
              /\ last'.token \in DOMAIN current_sessions
              /\ current_sessions[last'.token].user_type = "patient"
              /\ last'.arg.patient_id # current_sessions[last'.token].id =>
                  /\ last'.status = 200
                  /\ Len(appointments_db') = Len(appointments_db) + 1
                  /\ LET new == appointments_db'[Len(appointments_db')].v
                     IN  /\ new.id = last'.body.appointment_id
                         /\ new.patient_id = last'.arg.patient_id
                         /\ \A user \in PatientSessions :
                                /\ user = current_sessions[last'.token] =>
                                       new.id \notin ListedIds(user)'
                                /\ user.id = last'.arg.patient_id =>
                                       new.id \in ListedIds(user)'
           /\ \A i \in 1..Len(appointments_db) :
                  /\ i <= Len(appointments_db')
                  /\ appointments_db'[i] = appointments_db[i] ]_vars
    /\ [] (last.op = "get_appointments" /\ Authenticated
              /\ Caller.user_type = "patient" =>
              \A i \in 1..Len(appointments_db) :
                  (\E e \in Range(last.body) : e.id = appointments_db[i].v.id)
                      <=> appointments_db[i].v.patient_id = Caller.id)

\* patient pat1 has just booked for pat3, who holds a session: the stored
\* appointment names pat3, is listed to pat3 and is not listed to pat1
C11_Witness ==
    /\ last.op = "create_appointment"
    /\ last.status = 200
    /\ Authenticated
    /\ Caller.id = "pat1"
    /\ last.arg.patient_id = "pat3"
    /\ Get(appointments_db, last.body.appointment_id).patient_id = "pat3"
    /\ \E user \in PatientSessions :
           /\ user.id = "pat3"
           /\ last.body.appointment_id \in ListedIds(user)
    /\ last.body.appointment_id \notin ListedIds(Caller)

=============================================================================
